---- MODULE Spec2Model ----
(***************************************************************************)
(* Model of ak_requests.RequestsSession (request.py) and of the retry      *)
(* policy configured by TimeoutHTTPAdapter (adapters.py).                  *)
(*                                                                         *)
(* Time is counted in ticks of 0.1 s: MIN_REQUEST_GAP = 0.9 s is 9 ticks,  *)
(* a header value of N seconds is N * TicksPerSecond ticks.  Time passes   *)
(* only in blocking calls: time.sleep(d) returns after d or more ticks, a  *)
(* transport attempt takes one of NetDelays ticks, and the caller may let  *)
(* time pass between two calls.                                            *)
(***************************************************************************)
EXTENDS Integers, Sequences, FiniteSets, TLC

\* ---------------------------------------------------------------- bounds
MaxTime == 20            \* no call is started after this tick
MaxHeaderSeconds == 1    \* header values are 0..MaxHeaderSeconds seconds
MaxRetries == 2          \* sessions are built with retries in 0..MaxRetries
MaxUrls == 3             \* bulk_get is called with lists of up to MaxUrls urls
MaxCookieCalls == 2      \* update_cookies calls followed per session

\* ------------------------------------------------------ program constants
MIN_REQUEST_GAP == 9     \* 0.9 s, in ticks
TicksPerSecond == MIN_REQUEST_GAP + 1
ImportTime == 0          \* time.time() when the class body ran

None == -1               \* Python None / an absent header, for numeric fields
Missing == -2            \* an attribute or keyword argument that is not there

DEFAULT_TIMEOUT_s == 5   \* TimeoutHTTPAdapter.DEFAULT_TIMEOUT_s, seconds
SessionTimeout == 5      \* RequestsSession(timeout=5), seconds
TimeoutValues == {0, 1, 30}

status_forcelist == {429, 500, 502, 503, 504}
OtherStatuses == {200, 300, 400}
Statuses == status_forcelist \cup OtherStatuses

Sessions == {"A", "B"}
Callers == {1, 2}
URLs == {"a", "b", "c"}
HeaderSeconds == 0..MaxHeaderSeconds   \* X-RateLimit-Reset, Retry-After
RemainingValues == {0, 1}              \* X-RateLimit-Remaining
NetDelays == {0, 1}      \* ticks one transport attempt may take
Oversleep == {0}         \* ticks time.sleep may return late
IdleWaits == {0, 4, 12}  \* ticks a caller may wait before its next call
HeaderKeys == {"Authorization", "Referer"}
Absent == << >>          \* a header key the header map does not hold
CookieNames == {"id", "lang"}
CookieValues == {"1", "2"}

VARIABLES
    now,                    \* time.time()
    last_request_time,      \* per session: instance attribute, None while unset
    rate_limit_remaining,   \* per session
    rate_limit_reset,       \* per session
    retry_after,            \* per session
    RAISE_ERRORS,           \* per session flag
    retries,                \* per session retry count
    pc,                     \* per caller: position inside get
    call,                   \* per caller: locals of the running get
    result,                 \* per caller: what the finished get gave the caller
    headers,                \* per session: default headers
    cookies,                \* per session: cookie jar
    auth,                   \* per session: basic-auth credentials
    bulk,                   \* per caller: locals of the running bulk_get
    adapter,                \* per session: its TimeoutHTTPAdapter
    sent,                   \* per caller: its last TimeoutHTTPAdapter.send
    saved,                  \* the file save_session wrote
    loaded,                 \* per caller: outcome of its last load_session
    download,               \* per caller: locals of the running download
    hist                    \* per session: observations used by the properties

vars == <<now, last_request_time, rate_limit_remaining, rate_limit_reset,
          retry_after, RAISE_ERRORS, retries, pc, call, result, headers,
          cookies, auth, bulk, adapter, sent, saved, loaded, download, hist>>

sessionVars == <<last_request_time, rate_limit_remaining, rate_limit_reset,
                 retry_after>>
storeVars == <<adapter, sent, saved, loaded>>
settingVars == <<RAISE_ERRORS, retries, headers, cookies, auth, storeVars>>
configVars == <<settingVars, download>>

\* ---------------------------------------------------------------- records
\* entry: rate_limit_remaining, rate_limit_reset and retry_after of the
\* session when the call was entered, kept until the call has a response.
NoCall == [sess |-> "A", url |-> "a", attempts |-> 0, first |-> "none",
           allForce |-> TRUE, answer |-> None, err |-> "none", waited |-> {},
           authorization |-> Absent, received |-> <<None, None, None>>,
           entry |-> <<None, 0, None>>]

NoResult == [kind |-> "none", url |-> "a", status |-> None, err |-> "none"]

\* input: the list as the caller passed it; urls: the list as it is now.
NoBulk == [state |-> "idle", sess |-> "A", input |-> << >>, urls |-> << >>,
           duplicate_list |-> << >>, req |-> << >>, i |-> 0, out |-> << >>,
           err |-> "none", log |-> << >>]

\* lastDispatch: when the session's last get called super().get;
\* lastGap: the time between its last two such calls;
\* resetDue: the reset time the last response gave with X-RateLimit-Remaining: 0;
\* retryDue: the time the last response's Retry-After gave;
\* retryWaits: the sleeps spent on the Retry-After value last received;
\* opError: the exception the last header, cookie or auth call raised;
\* cookieCalls: the update_cookies calls made, each with its argument and
\* the exception it raised;
\* lastAuth: the Authorization value the last setup_auth_* call asked for;
\* headerArg: the mapping the last update_header call was given.
NoHist == [lastDispatch |-> None, lastGap |-> None, resetDue |-> None,
           retryDue |-> None, retryWaits |-> 0, opError |-> "none",
           cookieCalls |-> << >>, lastAuth |-> Absent, headerArg |-> << >>]

NoAuth == << >>          \* Session.auth = None

\* requests: the requests the download has sent, each with its method and
\* the time it was sent at.
NoDownload == [state |-> "idle", sess |-> "A", url |-> "a",
               confirm_downloadble |-> FALSE, is_dir |-> FALSE,
               filepath |-> << >>, out |-> << >>, err |-> "none",
               requests |-> << >>]

NoSent == [sess |-> "A", given |-> Missing, timeout |-> Missing]

\* A RequestsSession object outside Sessions: the attributes the model
\* follows (Missing: the object has no such attribute).
NoInstance == [headers |-> << >>, cookies |-> << >>, auth |-> NoAuth,
               max_retries |-> Missing, timeout |-> Missing,
               retries |-> Missing, hasLog |-> FALSE]

NoFile == [written |-> FALSE, state |-> << >>, src |-> NoInstance]

NoLoad == [state |-> "none", err |-> "none", instance |-> NoInstance]

\* TimeoutHTTPAdapter.__init__: self.timeout is DEFAULT_TIMEOUT_s unless a
\* timeout keyword is given.
AdapterTimeout(kwTimeout) ==
    IF kwTimeout # Missing THEN kwTimeout ELSE DEFAULT_TIMEOUT_s

\* TimeoutHTTPAdapter(max_retries, timeout=kwTimeout), or without a timeout
\* keyword when kwTimeout is Missing.
NewAdapter(kwTimeout) ==
    [kwTimeout |-> kwTimeout, timeout |-> AdapterTimeout(kwTimeout)]

LastRequestTimeOfClass(s) ==
    LET set == {last_request_time[x] : x \in Sessions} \ {None}
    IN IF set = {} THEN ImportTime
       ELSE CHOOSE m \in set : \A x \in set : x <= m

\* self.last_request_time: the instance attribute once get has assigned it,
\* the class attribute (set when the module was imported) before that.
LastRequestTime(s) ==
    IF last_request_time[s] = None THEN ImportTime ELSE last_request_time[s]

\* time.sleep(d): the set of times at which it may return.
SleepReturns(d) == {now + d + o : o \in Oversleep}

\* _set_default_headers, for the keys modelled.
DefaultHeaders ==
    [k \in HeaderKeys |-> IF k = "Referer" THEN <<"https://www.google.com/">>
                          ELSE Absent]

\* ------------------------------------------------------------------ Init
InitAll(Flags, Retries, TimeoutArgs) ==
    /\ now = 0
    /\ last_request_time = [s \in Sessions |-> None]
    /\ rate_limit_remaining = [s \in Sessions |-> None]
    /\ rate_limit_reset = [s \in Sessions |-> 0]
    /\ retry_after = [s \in Sessions |-> None]
    /\ \E f \in Flags, r \in Retries :
        /\ RAISE_ERRORS = [s \in Sessions |-> f]
        /\ retries = [s \in Sessions |-> r]
    /\ pc = [t \in Callers |-> "idle"]
    /\ call = [t \in Callers |-> NoCall]
    /\ result = [t \in Callers |-> NoResult]
    /\ headers = [s \in Sessions |-> DefaultHeaders]
    /\ cookies = [s \in Sessions |-> << >>]
    /\ auth = [s \in Sessions |-> NoAuth]
    /\ bulk = [t \in Callers |-> NoBulk]
    /\ adapter \in [Sessions -> {NewAdapter(k) : k \in TimeoutArgs}]
    /\ sent = [t \in Callers |-> NoSent]
    /\ saved = NoFile
    /\ loaded = [t \in Callers |-> NoLoad]
    /\ download = [t \in Callers |-> NoDownload]
    /\ hist = [s \in Sessions |-> NoHist]

\* Sessions built by RequestsSession(retries=r) with the default timeout.
InitWith(Flags, Retries) == InitAll(Flags, Retries, {SessionTimeout})

\* A session built with retries=1, in raise or non-raise mode.
Init == InitWith(BOOLEAN, {1})

\* Sessions built with any retry count up to MaxRetries.
InitRetry == InitWith(BOOLEAN, 0..MaxRetries)

\* ------------------------------------------------------------------- get
\* self.get(u) is entered: the try block starts, min_req_gap is read.
EnterGet(t, s, u) ==
    /\ pc' = [pc EXCEPT ![t] = "gap"]
    /\ call' = [call EXCEPT ![t] =
                  [NoCall EXCEPT !.sess = s, !.url = u,
                                 !.entry = <<rate_limit_remaining[s],
                                             rate_limit_reset[s],
                                             retry_after[s]>>]]
    /\ result' = [result EXCEPT ![t] = NoResult]

\* The caller, w ticks after its last call returned, calls get(u).
GetCall(t, s, u, w) ==
    /\ pc[t] = "idle"
    /\ bulk[t].state = "idle"
    /\ download[t].state = "idle"
    /\ now + w <= MaxTime
    /\ now' = now + w
    /\ EnterGet(t, s, u)
    /\ UNCHANGED <<sessionVars, configVars, bulk, hist>>

GapSleepElapsed(elapsed_time) == elapsed_time

\* time.sleep(min_req_gap - elapsed_time)
GapSleep(elapsed_time) == MIN_REQUEST_GAP - elapsed_time

GapWaitThenStamp(t) ==
    /\ pc[t] = "gap"
    /\ LET s == call[t].sess
           elapsed_time == now - LastRequestTime(s)
       IN /\ IF elapsed_time < MIN_REQUEST_GAP
             THEN /\ now' \in SleepReturns(GapSleep(elapsed_time))
                  /\ call' = [call EXCEPT ![t].waited = @ \cup {"gap"}]
             ELSE UNCHANGED <<now, call>>
          /\ last_request_time' = [last_request_time EXCEPT ![s] = now']
    /\ pc' = [pc EXCEPT ![t] = "rl"]
    /\ UNCHANGED <<rate_limit_remaining, rate_limit_reset, retry_after,
                   configVars, result, bulk, hist>>

\* elapsed_time = time.time() - self.last_request_time; sleep the rest of
\* the gap when elapsed_time < min_req_gap.
GapWait(t) ==
    /\ pc[t] = "gap"
    /\ LET s == call[t].sess
           elapsed_time == now - LastRequestTime(s)
       IN IF elapsed_time < MIN_REQUEST_GAP
          THEN /\ now' \in SleepReturns(GapSleep(elapsed_time))
               /\ call' = [call EXCEPT ![t].waited = @ \cup {"gap"}]
          ELSE UNCHANGED <<now, call>>
    /\ pc' = [pc EXCEPT ![t] = "rl"]
    /\ UNCHANGED <<sessionVars, configVars, result, bulk, hist>>

RateLimitHitBelowZero(remaining) == remaining # None /\ remaining < 0

\* self.rate_limit_remaining is not None and self.rate_limit_remaining <= 0
RateLimitHit(remaining) == remaining # None /\ remaining <= 0

RateLimitWaitNonNegative(t) ==
    /\ pc[t] = "rl"
    /\ LET s == call[t].sess
           remaining_time == rate_limit_reset[s] - now
       IN IF RateLimitHit(rate_limit_remaining[s]) /\ remaining_time >= 0
          THEN /\ now' \in SleepReturns(remaining_time)
               /\ call' = [call EXCEPT ![t].waited = @ \cup {"reset"}]
          ELSE UNCHANGED <<now, call>>
    /\ pc' = [pc EXCEPT ![t] = "ra"]
    /\ UNCHANGED <<sessionVars, configVars, result, bulk, hist>>

RateLimitWaitForQuota(t) ==
    /\ pc[t] = "rl"
    /\ ~RateLimitHit(rate_limit_remaining[call[t].sess])
    /\ pc' = [pc EXCEPT ![t] = "ra"]
    /\ UNCHANGED <<now, call, sessionVars, configVars, result, bulk, hist>>

\* check_rate_limit, first half: the rate-limit window.
RateLimitWait(t) ==
    /\ pc[t] = "rl"
    /\ LET s == call[t].sess
           remaining_time == rate_limit_reset[s] - now
       IN IF RateLimitHit(rate_limit_remaining[s]) /\ remaining_time > 0
          THEN /\ now' \in SleepReturns(remaining_time)
               /\ call' = [call EXCEPT ![t].waited = @ \cup {"reset"}]
          ELSE UNCHANGED <<now, call>>
    /\ pc' = [pc EXCEPT ![t] = "ra"]
    /\ UNCHANGED <<sessionVars, configVars, result, bulk, hist>>

RetryAfterKept(old) == old

\* self.retry_after = None  # Reset after wait
RetryAfterReset(old) == None

RetryAfterWaitAlwaysReset(t) ==
    /\ pc[t] = "ra"
    /\ LET s == call[t].sess
           retry_wait == retry_after[s] - now
       IN /\ IF retry_after[s] # None /\ retry_wait > 0
             THEN /\ now' \in SleepReturns(retry_wait)
                  /\ call' = [call EXCEPT ![t].waited = @ \cup {"retry"}]
                  /\ hist' = [hist EXCEPT ![s].retryWaits = @ + 1]
             ELSE UNCHANGED <<now, call, hist>>
          /\ retry_after' = [retry_after EXCEPT ![s] = None]
    /\ pc' = [pc EXCEPT ![t] = "stamp"]
    /\ UNCHANGED <<last_request_time, rate_limit_remaining, rate_limit_reset,
                   configVars, result, bulk>>

\* check_rate_limit, second half: Retry-After; cleared after the sleep.
RetryAfterWait(t) ==
    /\ pc[t] = "ra"
    /\ LET s == call[t].sess
           retry_wait == retry_after[s] - now
       IN IF retry_after[s] # None /\ retry_wait > 0
          THEN /\ now' \in SleepReturns(retry_wait)
               /\ call' = [call EXCEPT ![t].waited = @ \cup {"retry"}]
               /\ retry_after' = [retry_after EXCEPT ![s] = RetryAfterReset(@)]
               /\ hist' = [hist EXCEPT ![s].retryWaits = @ + 1]
          ELSE UNCHANGED <<now, call, retry_after, hist>>
    /\ pc' = [pc EXCEPT ![t] = "stamp"]
    /\ UNCHANGED <<last_request_time, rate_limit_remaining, rate_limit_reset,
                   configVars, result, bulk>>

\* HTTPBasicAuth(username, passwd) as an Authorization header value.
BasicAuthorization(credentials) ==
    <<"Basic", credentials[1], credentials[2]>>

\* f"Bearer {token}"
BearerAuthorization(token) == <<"Bearer", token>>

\* The Authorization header of the request super().get prepares: the
\* session's header, replaced by the basic-auth header when self.auth is
\* set (requests applies auth after merging the headers).
PreparedAuthorization(s) ==
    IF auth[s] # NoAuth THEN BasicAuthorization(auth[s])
    ELSE headers[s]["Authorization"]

StampAfterResponse(t) ==
    /\ pc[t] = "stamp"
    /\ call' = [call EXCEPT ![t].authorization = PreparedAuthorization(call[t].sess)]
    /\ LET s == call[t].sess
       IN hist' = [hist EXCEPT
                ![s].lastDispatch = now,
                ![s].lastGap = IF hist[s].lastDispatch = None THEN None
                               ELSE now - hist[s].lastDispatch]
    /\ pc' = [pc EXCEPT ![t] = "send"]
    /\ UNCHANGED <<now, sessionVars, configVars, result, bulk>>

\* self.last_request_time = time.time(), then super().get(...) starts.
Stamp(t) ==
    /\ pc[t] = "stamp"
    /\ call' = [call EXCEPT ![t].authorization = PreparedAuthorization(call[t].sess)]
    /\ LET s == call[t].sess
       IN /\ last_request_time' = [last_request_time EXCEPT ![s] = now]
          /\ hist' = [hist EXCEPT
                ![s].lastDispatch = now,
                ![s].lastGap = IF hist[s].lastDispatch = None THEN None
                               ELSE now - hist[s].lastDispatch]
    /\ pc' = [pc EXCEPT ![t] = "send"]
    /\ UNCHANGED <<now, rate_limit_remaining, rate_limit_reset, retry_after,
                   configVars, result, bulk>>

\* What the server answered, for the history fields of a call.
AnswerKind(st) == IF st \in status_forcelist THEN "force" ELSE "other"

IsRetryStatusAnyError(st) == st >= 400

\* Retry(total=max_retries, status_forcelist=[...]): a response whose status
\* is in status_forcelist uses up one retry, as a connection error does.
IsRetryStatus(st) == st \in status_forcelist

RetriesExhaustedEarly(attemptsMade, total) == attemptsMade >= total

\* Retry.total is used up once more attempts failed than total allows.
RetriesExhausted(attemptsMade, total) == attemptsMade > total

\* self.rate_limit_reset = time.time() + int(headers["X-RateLimit-Reset"])
ResetAt(t0, hReset) == t0 + hReset * TicksPerSecond

\* self.retry_after = time.time() + int(headers["Retry-After"])
RetryAfterAt(t0, hRetryAfter) == t0 + hRetryAfter * TicksPerSecond

UpdateRateLimitEitherHeader(s, hRemaining, hReset, hRetryAfter) ==
    /\ IF hRemaining # None \/ hReset # None
       THEN /\ rate_limit_remaining' =
                  [rate_limit_remaining EXCEPT ![s] =
                      IF hRemaining # None THEN hRemaining ELSE @]
            /\ rate_limit_reset' =
                  [rate_limit_reset EXCEPT ![s] =
                      IF hReset # None THEN ResetAt(now', hReset) ELSE @]
       ELSE UNCHANGED <<rate_limit_remaining, rate_limit_reset>>
    /\ IF hRetryAfter # None
       THEN retry_after' = [retry_after EXCEPT ![s] = RetryAfterAt(now', hRetryAfter)]
       ELSE UNCHANGED retry_after

\* update_rate_limit(response) for the headers X-RateLimit-Remaining,
\* X-RateLimit-Reset and Retry-After (None: the header is absent).
UpdateRateLimit(s, hRemaining, hReset, hRetryAfter) ==
    /\ IF hRemaining # None /\ hReset # None
       THEN /\ rate_limit_remaining' = [rate_limit_remaining EXCEPT ![s] = hRemaining]
            /\ rate_limit_reset' = [rate_limit_reset EXCEPT ![s] = ResetAt(now', hReset)]
       ELSE UNCHANGED <<rate_limit_remaining, rate_limit_reset>>
    /\ IF hRetryAfter # None
       THEN retry_after' = [retry_after EXCEPT ![s] = RetryAfterAt(now', hRetryAfter)]
       ELSE UNCHANGED retry_after

\* One transport attempt answered with a retryable status, retries left:
\* the adapter sends again.  (The time a dispatch takes is counted at its
\* last attempt.)
AttemptRetryStatus(t, Answers) ==
    /\ pc[t] = "send"
    /\ \E st \in Answers :
        /\ IsRetryStatus(st)
        /\ ~RetriesExhausted(call[t].attempts + 1, retries[call[t].sess])
        /\ call' = [call EXCEPT ![t].attempts = @ + 1,
                                ![t].first = IF @ = "none" THEN AnswerKind(st) ELSE @,
                                ![t].allForce = @ /\ st \in status_forcelist,
                                ![t].answer = st]
    /\ UNCHANGED <<now, sessionVars, configVars, pc, result, bulk, hist>>

\* One transport attempt answered with a retryable status, no retry left:
\* requests raises RetryError.
AttemptRetryError(t, Answers, Delays) ==
    /\ pc[t] = "send"
    /\ \E st \in Answers, d \in Delays :
        /\ IsRetryStatus(st)
        /\ RetriesExhausted(call[t].attempts + 1, retries[call[t].sess])
        /\ now' = now + d
        /\ call' = [call EXCEPT ![t].attempts = @ + 1,
                                ![t].first = IF @ = "none" THEN AnswerKind(st) ELSE @,
                                ![t].allForce = @ /\ st \in status_forcelist,
                                ![t].answer = st,
                                ![t].err = "RetryError"]
    /\ pc' = [pc EXCEPT ![t] = "exc"]
    /\ UNCHANGED <<sessionVars, configVars, result, bulk, hist>>

\* One transport attempt failed at connection level; retried while retries
\* are left, ConnectionError when they are used up.
AttemptConnectionFailure(t, Delays) ==
    /\ pc[t] = "send"
    /\ \E d \in Delays :
        IF RetriesExhausted(call[t].attempts + 1, retries[call[t].sess])
        THEN /\ now' = now + d
             /\ call' = [call EXCEPT ![t].attempts = @ + 1,
                                     ![t].first = IF @ = "none" THEN "conn" ELSE @,
                                     ![t].allForce = FALSE,
                                     ![t].answer = None,
                                     ![t].err = "ConnectionError"]
             /\ pc' = [pc EXCEPT ![t] = "exc"]
        ELSE /\ d = 0
             /\ call' = [call EXCEPT ![t].attempts = @ + 1,
                                     ![t].first = IF @ = "none" THEN "conn" ELSE @,
                                     ![t].allForce = FALSE,
                                     ![t].answer = None]
             /\ UNCHANGED <<now, pc>>
    /\ UNCHANGED <<sessionVars, configVars, result, bulk, hist>>

\* return response
ReturnedResponse(u, st) ==
    [kind |-> "response", url |-> u, status |-> st, err |-> "none"]

\* One transport attempt answered with a status outside status_forcelist:
\* super().get returns the response, update_rate_limit reads its headers,
\* get returns the response.
AttemptResponse(t, Answers, Delays, Headers) ==
    /\ pc[t] = "send"
    /\ \E st \in Answers, d \in Delays, h \in Headers :
        LET s == call[t].sess
            hRemaining == h[1]
            hReset == h[2]
            hRetryAfter == h[3]
        IN /\ ~IsRetryStatus(st)
           /\ now' = now + d
           /\ call' = [call EXCEPT ![t].attempts = @ + 1,
                                   ![t].first = IF @ = "none" THEN AnswerKind(st) ELSE @,
                                   ![t].allForce = @ /\ st \in status_forcelist,
                                   ![t].answer = st,
                                   ![t].received = h,
                                   ![t].entry = NoCall.entry]
           /\ UpdateRateLimit(s, hRemaining, hReset, hRetryAfter)
           /\ result' = [result EXCEPT ![t] = ReturnedResponse(call[t].url, st)]
           /\ hist' = [hist EXCEPT
                 ![s].resetDue = IF hRemaining = 0 /\ hReset # None
                                 THEN now' + hReset * TicksPerSecond ELSE None,
                 ![s].retryDue = IF hRetryAfter # None
                                 THEN now' + hRetryAfter * TicksPerSecond ELSE None,
                 ![s].retryWaits = IF hRetryAfter # None THEN 0 ELSE @]
    /\ pc' = [pc EXCEPT ![t] = "ret"]
    /\ UNCHANGED <<last_request_time, configVars, bulk>>

ExceptionOutcomeRaise(raise_errors, u, e) ==
    [kind |-> "raised", url |-> u, status |-> None, err |-> e]

\* _handle_request_exception(e) and the return None after it: what get
\* gives its caller for a RequestException, by the session's RAISE_ERRORS.
ExceptionOutcome(raise_errors, u, e) ==
    IF raise_errors
    THEN [kind |-> "raised", url |-> u, status |-> None, err |-> e]
    ELSE [kind |-> "None", url |-> u, status |-> None, err |-> "none"]

\* except requests.RequestException as e
HandleRequestException(t) ==
    /\ pc[t] = "exc"
    /\ result' = [result EXCEPT ![t] =
                    ExceptionOutcome(RAISE_ERRORS[call[t].sess], call[t].url,
                                     call[t].err)]
    /\ pc' = [pc EXCEPT ![t] = "ret"]
    /\ UNCHANGED <<now, sessionVars, configVars, call, bulk, hist>>

\* The caller has the outcome of a get it called directly.
Return(t) ==
    /\ pc[t] = "ret"
    /\ bulk[t].state = "idle"
    /\ download[t].state = "idle"
    /\ pc' = [pc EXCEPT ![t] = "idle"]
    /\ call' = [call EXCEPT ![t] = NoCall]
    /\ result' = [result EXCEPT ![t] = NoResult]
    /\ UNCHANGED <<now, sessionVars, configVars, bulk, hist>>

\* The response headers a server may send: each of X-RateLimit-Remaining,
\* X-RateLimit-Reset and Retry-After absent or an integer.
AllHeaders == (RemainingValues \cup {None}) \X (HeaderSeconds \cup {None})
                  \X (HeaderSeconds \cup {None})
NoHeaders == {<<None, None, None>>}

\* The steps of a running get; the servers answer with the statuses
\* Answers and the headers Headers after one of the Delays.
GetStep(t, Answers, Delays, Headers) ==
    \/ GapWait(t)
    \/ RateLimitWait(t)
    \/ RetryAfterWait(t)
    \/ Stamp(t)
    \/ AttemptRetryStatus(t, Answers)
    \/ AttemptRetryError(t, Answers, Delays)
    \/ AttemptConnectionFailure(t, Delays)
    \/ AttemptResponse(t, Answers, Delays, Headers)
    \/ HandleRequestException(t)

\* -------------------------------------------------------------- bulk_get
\* random.shuffle(duplicate_list): every permutation of the list.
IndexPermutations(n) ==
    {p \in [1..n -> 1..n] : \A i, j \in 1..n : p[i] = p[j] => i = j}

ShufflesSample(urls) ==
    {[i \in 1..Len(urls) |-> urls[p[i]]] : p \in [1..Len(urls) -> 1..Len(urls)]}

Shuffles(urls) ==
    {[i \in 1..Len(urls) |-> urls[p[i]]] : p \in IndexPermutations(Len(urls))}

\* req: dict = {}   (a url without an entry maps to NoResult)
EmptyReq == [u \in URLs |-> NoResult]

\* bulk_get(urls) is entered: the list is copied and shuffled.
BulkGet(t, s, urls) ==
    /\ pc[t] = "idle"
    /\ bulk[t].state = "idle"
    /\ download[t].state = "idle"
    /\ now <= MaxTime
    /\ \E dl \in Shuffles(urls) :
        bulk' = [bulk EXCEPT ![t] =
                   [state |-> "loop", sess |-> s, input |-> urls,
                    urls |-> urls,
                    duplicate_list |-> dl, req |-> EmptyReq, i |-> 1,
                    out |-> << >>, err |-> "none", log |-> << >>]]
    /\ UNCHANGED <<now, sessionVars, configVars, pc, call, result, hist>>

\* for url in duplicate_list: self.get(url, ...) is called.
BulkIssue(t) ==
    /\ pc[t] = "idle"
    /\ bulk[t].state = "loop"
    /\ bulk[t].i <= Len(bulk[t].duplicate_list)
    /\ EnterGet(t, bulk[t].sess, bulk[t].duplicate_list[bulk[t].i])
    /\ UNCHANGED <<now, sessionVars, configVars, bulk, hist>>

BulkAfterGetSwallow(b, u, r, raise_errors) ==
    [b EXCEPT !.req[u] = IF r.kind = "raised"
                         THEN [kind |-> "None", url |-> u, status |-> None,
                               err |-> "none"]
                         ELSE r,
              !.i = @ + 1]

BulkAfterGetBreak(b, u, r, raise_errors) ==
    IF r.kind = "response"
    THEN [b EXCEPT !.req[u] = r, !.i = @ + 1]
    ELSE [b EXCEPT !.req[u] = r, !.i = Len(b.duplicate_list) + 1]

BulkAfterGetKeepFirst(b, u, r, raise_errors) ==
    LET kept == IF b.req[u] # NoResult THEN b.req[u] ELSE r
    IN IF r.kind # "raised"
       THEN [b EXCEPT !.req[u] = kept, !.i = @ + 1]
       ELSE IF ~raise_errors
            THEN [b EXCEPT !.req[u] = IF b.req[u] # NoResult THEN b.req[u]
                                      ELSE [kind |-> "None", url |-> u,
                                            status |-> None, err |-> "none"],
                           !.i = @ + 1]
            ELSE [b EXCEPT !.state = "raised", !.err = r.err]

\* req[url] = self.get(url); except Exception as e: req[url] = None when
\* not RAISE_ERRORS, raise e otherwise.
BulkAfterGet(b, u, r, raise_errors) ==
    IF r.kind # "raised"
    THEN [b EXCEPT !.req[u] = r, !.i = @ + 1]
    ELSE IF ~raise_errors
         THEN [b EXCEPT !.req[u] = [kind |-> "None", url |-> u,
                                    status |-> None, err |-> "none"],
                        !.i = @ + 1]
         ELSE [b EXCEPT !.state = "raised", !.err = r.err]

\* The get called by the loop has returned or raised.
BulkStore(t) ==
    /\ pc[t] = "ret"
    /\ bulk[t].state = "loop"
    /\ LET b == BulkAfterGet(bulk[t], call[t].url, result[t],
                             RAISE_ERRORS[bulk[t].sess])
       IN bulk' = [bulk EXCEPT ![t] =
                     [b EXCEPT !.log = Append(@, [url |-> call[t].url,
                                                  err |-> call[t].err,
                                                  r |-> result[t]])]]
    /\ pc' = [pc EXCEPT ![t] = "idle"]
    /\ call' = [call EXCEPT ![t] = NoCall]
    /\ result' = [result EXCEPT ![t] = NoResult]
    /\ UNCHANGED <<now, sessionVars, configVars, hist>>

BulkOutputDispatchOrder(b) ==
    [k \in 1..Len(b.urls) |-> b.req[b.duplicate_list[k]]]

\* return [req[url] for url in urls]
BulkOutput(b) == [k \in 1..Len(b.urls) |-> b.req[b.urls[k]]]

\* The loop is over: bulk_get returns.
BulkReturn(t) ==
    /\ pc[t] = "idle"
    /\ bulk[t].state = "loop"
    /\ bulk[t].i > Len(bulk[t].duplicate_list)
    /\ bulk' = [bulk EXCEPT ![t].state = "returned",
                            ![t].out = BulkOutput(bulk[t])]
    /\ UNCHANGED <<now, sessionVars, configVars, pc, call, result, hist>>

\* The caller has the list, or the exception, of its bulk_get.
BulkDone(t) ==
    /\ bulk[t].state \in {"returned", "raised"}
    /\ bulk' = [bulk EXCEPT ![t] = NoBulk]
    /\ UNCHANGED <<now, sessionVars, configVars, pc, call, result, hist>>

\* -------------------------------------------------------------- download
\* The response headers a HEAD request may bring back.
ContentTypes == {Absent, <<"HTML">>, <<"text/html">>, <<"application/pdf">>}
ContentDispositions == {Absent, <<"inline">>, <<"attachment; filename=f">>}

\* content_type.lower()
LowerContentType(content_type) ==
    CASE content_type = <<"HTML">> -> <<"html">>
      [] OTHER -> content_type

\* downloadble, after its HEAD request: a url is refused only when its
\* content-type is, in lower case, exactly "text" or "html".
Downloadble(content_type) ==
    IF content_type = Absent THEN TRUE
    ELSE IF LowerContentType(content_type) \in {<<"text">>, <<"html">>}
         THEN FALSE
         ELSE TRUE

\* re.findall("filename=(.+)", cd)
FilenameMatches(cd) ==
    IF cd = <<"attachment; filename=f">> THEN << <<"f">> >> ELSE << >>

\* _filename_from_url, after its HEAD request: the name the
\* content-disposition header gives, or else the last segment of the url.
FilenameFromUrl(cd, u) ==
    IF cd # Absent /\ Len(FilenameMatches(cd)) # 0
    THEN FilenameMatches(cd)[1]
    ELSE <<u>>

\* self.head(url, allow_redirects=True): Session.head, which RequestsSession
\* does not override -- the request goes out at once, without the waits of
\* get and without touching last_request_time.
HeadSent == [method |-> "HEAD", at |-> now]

\* The caller, w ticks after its last call returned, calls
\* download(u, fifopath, confirm_downloadble); is_dir: fifopath is a
\* directory.
DownloadCall(t, s, u, confirm_downloadble, is_dir, w) ==
    /\ pc[t] = "idle"
    /\ bulk[t].state = "idle"
    /\ download[t].state = "idle"
    /\ now + w <= MaxTime
    /\ now' = now + w
    /\ download' = [download EXCEPT ![t] =
                      [NoDownload EXCEPT
                         !.state = IF confirm_downloadble THEN "confirm"
                                   ELSE "path",
                         !.sess = s, !.url = u,
                         !.confirm_downloadble = confirm_downloadble,
                         !.is_dir = is_dir]]
    /\ UNCHANGED <<sessionVars, settingVars, pc, call, result, bulk, hist>>

\* if not self.downloadble(url): return None -- one HEAD request, answered
\* after d ticks or failing with an exception that leaves download.
DownloadConfirm(t, Delays, Types) ==
    /\ download[t].state = "confirm"
    /\ \E d \in Delays :
        /\ now' = now + d
        /\ \/ \E content_type \in Types :
                download' = [download EXCEPT
                    ![t].requests = Append(@, HeadSent),
                    ![t].state = IF Downloadble(content_type) THEN "path"
                                 ELSE "returned",
                    ![t].out = IF Downloadble(content_type) THEN @
                               ELSE <<"None">>]
           \/ download' = [download EXCEPT
                    ![t].requests = Append(@, HeadSent),
                    ![t].state = "raised",
                    ![t].err = "ConnectionError"]
    /\ UNCHANGED <<sessionVars, settingVars, pc, call, result, bulk, hist>>

\* filepath: fifopath itself, or the directory with the name
\* _filename_from_url finds with one more HEAD request.
DownloadPath(t, Delays, Dispositions) ==
    /\ download[t].state = "path"
    /\ IF download[t].is_dir
       THEN \E d \in Delays :
            /\ now' = now + d
            /\ \/ \E cd \in Dispositions :
                    download' = [download EXCEPT
                        ![t].requests = Append(@, HeadSent),
                        ![t].state = "get",
                        ![t].filepath =
                            <<"dir">> \o FilenameFromUrl(cd, download[t].url)]
               \/ download' = [download EXCEPT
                        ![t].requests = Append(@, HeadSent),
                        ![t].state = "raised",
                        ![t].err = "ConnectionError"]
       ELSE /\ download' = [download EXCEPT ![t].state = "get",
                                             ![t].filepath = <<"file">>]
            /\ UNCHANGED now
    /\ UNCHANGED <<sessionVars, settingVars, pc, call, result, bulk, hist>>

\* with self.get(url, stream=True, **kwargs) as r: the get is called.
DownloadIssue(t) ==
    /\ pc[t] = "idle"
    /\ download[t].state = "get"
    /\ EnterGet(t, download[t].sess, download[t].url)
    /\ download' = [download EXCEPT ![t].state = "fetch"]
    /\ UNCHANGED <<now, sessionVars, settingVars, bulk, hist>>

\* What download does with what its get gave: a response is written to
\* filepath, which is returned; an exception of get leaves download; the
\* None of a failed get on a non-raise session is no context manager, and
\* the with statement raises (AttributeError up to Python 3.10, TypeError
\* from 3.11 on).
DownloadOutcomes(d, r) ==
    IF r.kind = "response"
    THEN {[d EXCEPT !.state = "returned", !.out = d.filepath]}
    ELSE IF r.kind = "raised"
         THEN {[d EXCEPT !.state = "raised", !.err = r.err]}
         ELSE {[d EXCEPT !.state = "raised", !.err = e] :
                  e \in {"AttributeError", "TypeError"}}

\* The get called by download has returned or raised.
DownloadStore(t) ==
    /\ pc[t] = "ret"
    /\ download[t].state = "fetch"
    /\ \E d \in DownloadOutcomes(download[t], result[t]) :
        download' = [download EXCEPT ![t] =
            [d EXCEPT !.requests =
                Append(@, [method |-> "GET",
                           at |-> hist[download[t].sess].lastDispatch])]]
    /\ pc' = [pc EXCEPT ![t] = "idle"]
    /\ call' = [call EXCEPT ![t] = NoCall]
    /\ result' = [result EXCEPT ![t] = NoResult]
    /\ UNCHANGED <<now, sessionVars, settingVars, bulk, hist>>

\* The caller has the path, the None or the exception of its download.
DownloadDone(t) ==
    /\ download[t].state \in {"returned", "raised"}
    /\ download' = [download EXCEPT ![t] = NoDownload]
    /\ UNCHANGED <<now, sessionVars, settingVars, pc, call, result, bulk, hist>>

\* ------------------------------------------- headers, cookies and auth
\* The keys a caller may write for the headers modelled, and key.lower().
HeaderSpellings == {"Referer", "referer", "Authorization"}

Lower(key) ==
    CASE key = "Referer" -> "referer"
      [] key = "Authorization" -> "authorization"
      [] OTHER -> key

\* self.headers is a CaseInsensitiveDict: a key stands for the entry whose
\* lower-cased key equals its own.
HeaderName(key) == CHOOSE k \in HeaderKeys : Lower(k) = Lower(key)

\* The dicts update_header is given, as their items in iteration order:
\* distinct keys, any values.
HeaderValues == {<<"https://example.com/">>, <<"x">>}

HeaderMappings ==
    UNION {{m \in [1..n -> [key : HeaderSpellings, value : HeaderValues]] :
                \A i, j \in 1..n : m[i].key = m[j].key => i = j} :
           n \in 0..Cardinality(HeaderKeys)}

MergeCaseSensitive(h, m) ==
    [k \in HeaderKeys |->
        LET at == {i \in 1..Len(m) : m[i].key = k}
        IN IF at = {} THEN h[k]
           ELSE m[CHOOSE i \in at : \A j \in at : j <= i].value]

\* self.headers.update(header): headers[key] = value for each item of the
\* dict in turn.
RECURSIVE Merge(_, _)
Merge(h, m) ==
    IF m = << >> THEN h
    ELSE Merge([h EXCEPT ![HeaderName(Head(m).key)] = Head(m).value], Tail(m))

\* update_header(header): self.headers.update(header)
UpdateHeader(t, s, m) ==
    /\ pc[t] = "idle"
    /\ bulk[t].state = "idle"
    /\ headers' = [headers EXCEPT ![s] = Merge(@, m)]
    /\ hist' = [hist EXCEPT ![s].opError = "none", ![s].headerArg = m]
    /\ UNCHANGED <<now, sessionVars, RAISE_ERRORS, retries, cookies, auth,
                   storeVars, pc,
                   call, result, bulk, download>>

\* The lists update_cookies is given: dicts with the keys name and value,
\* or Cookie records, at most one entry per cookie name and position.
CookieEntries ==
    [kind : {"dict", "Cookie"}, name : CookieNames, value : CookieValues]

CookieLists ==
    UNION {{cs \in [1..n -> CookieEntries] :
                \A i, j \in 1..n : cs[i].kind = cs[j].kind} :
           n \in 0..Cardinality(CookieNames)}

\* update_cookies(cookies): isinstance(cookies, list[dict]) is evaluated
\* first, and isinstance raises TypeError for a parameterized generic, so
\* the call ends there and the jar is not touched.
UpdateCookies(t, s, cs) ==
    /\ pc[t] = "idle"
    /\ bulk[t].state = "idle"
    /\ Len(hist[s].cookieCalls) < MaxCookieCalls
    /\ hist' = [hist EXCEPT
          ![s].opError = "TypeError",
          ![s].cookieCalls = Append(@, [arg |-> cs, raised |-> "TypeError"])]
    /\ UNCHANGED <<now, sessionVars, configVars, pc, call, result, bulk>>

\* setup_auth_oauth2(token): self.headers["Authorization"] = f"Bearer {token}"
SetupAuthOauth2(t, s, token) ==
    /\ pc[t] = "idle"
    /\ bulk[t].state = "idle"
    /\ headers' = [headers EXCEPT ![s]["Authorization"] = BearerAuthorization(token)]
    /\ hist' = [hist EXCEPT ![s].opError = "none",
                            ![s].lastAuth = BearerAuthorization(token)]
    /\ UNCHANGED <<now, sessionVars, RAISE_ERRORS, retries, cookies, auth,
                   storeVars, pc,
                   call, result, bulk, download>>

\* setup_auth_basic(username, passwd): self.auth = (username, passwd)
SetupAuthBasic(t, s, username, passwd) ==
    /\ pc[t] = "idle"
    /\ bulk[t].state = "idle"
    /\ auth' = [auth EXCEPT ![s] = <<username, passwd>>]
    /\ hist' = [hist EXCEPT ![s].opError = "none",
                            ![s].lastAuth = BasicAuthorization(<<username, passwd>>)]
    /\ UNCHANGED <<now, sessionVars, RAISE_ERRORS, retries, headers, cookies,
                   storeVars,
                   pc, call, result, bulk, download>>

\* ------------------------------------------------ TimeoutHTTPAdapter.send
SendTimeoutFalsy(self_timeout, kwTimeout) ==
    IF kwTimeout \in {Missing, None, 0} THEN self_timeout ELSE kwTimeout

\* timeout = kwargs.get("timeout"); if timeout is None:
\* kwargs["timeout"] = self.timeout.  The timeout super().send is given.
SendTimeout(self_timeout, kwTimeout) ==
    IF kwTimeout = Missing \/ kwTimeout = None THEN self_timeout ELSE kwTimeout

\* adapter.send(request, timeout=kwTimeout), or without a timeout keyword
\* when kwTimeout is Missing, on an adapter of session s.
AdapterSend(t, s, kwTimeout) ==
    /\ sent' = [sent EXCEPT ![t] =
                  [sess |-> s, given |-> kwTimeout,
                   timeout |-> SendTimeout(adapter[s].timeout, kwTimeout)]]
    /\ UNCHANGED <<now, sessionVars, RAISE_ERRORS, retries, headers, cookies,
                   auth, adapter, saved, loaded, pc, call, result, bulk, download,
                   hist>>

\* ---------------------------------------------- save_session, load_session
\* HTTPAdapter.__getstate__: the attributes named in HTTPAdapter.__attrs__
\* (max_retries and the pool settings); self.timeout, which
\* TimeoutHTTPAdapter adds, is not among them.
AdapterGetState(s) == [max_retries |-> retries[s]]

\* Session.__getstate__, which pickle.dump(self, file) calls: the attributes
\* named in Session.__attrs__ (headers, cookies, auth, adapters, ...); the
\* attributes RequestsSession.__init__ adds are not among them.
SessionGetState(s) ==
    [headers |-> headers[s], cookies |-> cookies[s], auth |-> auth[s],
     adapter |-> AdapterGetState(s)]

\* pickle.load(file): an object made without __init__, on which
\* Session.__setstate__ and HTTPAdapter.__setstate__ set the pickled
\* attributes and no other.
Unpickle(state) ==
    [headers |-> state.headers, cookies |-> state.cookies, auth |-> state.auth,
     max_retries |-> state.adapter.max_retries, timeout |-> Missing,
     retries |-> Missing, hasLog |-> FALSE]

\* The session s as an object, for comparison with a restored one.
InstanceOf(s) ==
    [headers |-> headers[s], cookies |-> cookies[s], auth |-> auth[s],
     max_retries |-> retries[s], timeout |-> adapter[s].timeout,
     retries |-> retries[s], hasLog |-> TRUE]

\* save_session(file_path): pickle.dump(self, file)
SaveSession(t, s) ==
    /\ pc[t] = "idle"
    /\ bulk[t].state = "idle"
    /\ saved' = [written |-> TRUE, state |-> SessionGetState(s),
                 src |-> InstanceOf(s)]
    /\ UNCHANGED <<now, sessionVars, RAISE_ERRORS, retries, headers, cookies,
                   auth, adapter, sent, loaded, pc, call, result, bulk, download,
                   hist>>

\* load_session(file_path, retries=r): the instance built by cls(...) is
\* replaced by pickle.load(file); instance._info(...) then reads
\* instance.log, and the call returns the instance.
LoadSession(t, r) ==
    /\ pc[t] = "idle"
    /\ bulk[t].state = "idle"
    /\ saved.written
    /\ LET instance == Unpickle(saved.state)
       IN loaded' = [loaded EXCEPT ![t] =
                       IF instance.hasLog
                       THEN [state |-> "returned", err |-> "none",
                             instance |-> instance]
                       ELSE [state |-> "raised", err |-> "AttributeError",
                             instance |-> instance]]
    /\ UNCHANGED <<now, sessionVars, RAISE_ERRORS, retries, headers, cookies,
                   auth, adapter, sent, saved, pc, call, result, bulk, download,
                   hist>>

\* --------------------------------------------------------- specifications
\* One caller issuing get calls one after another on session A, the
\* servers sending any rate-limit headers.
Next ==
    \/ \E w \in IdleWaits : GetCall(1, "A", "a", w)
    \/ GetStep(1, {200, 500}, NetDelays, AllHeaders)
    \/ Return(1)

Spec == Init /\ [][Next]_vars

\* The same caller on sessions of every retry count; the servers send no
\* rate-limit headers and the caller does not pause between calls.
NextRetry ==
    \/ \E u \in URLs : GetCall(1, "A", u, 0)
    \/ GetStep(1, Statuses, NetDelays, NoHeaders)
    \/ Return(1)

SpecRetry == InitRetry /\ [][NextRetry]_vars

\* One caller mixing get, bulk_get of two urls, and the header, cookie and
\* auth calls on session A; the servers answer 200 or 500, with or without
\* a Retry-After header.
RetryAfterHeaders == {None} \X {None} \X (HeaderSeconds \cup {None})

NextOps ==
    \/ GetCall(1, "A", "a", 0)
    \/ GetStep(1, {200, 500}, {0}, RetryAfterHeaders)
    \/ Return(1)
    \/ BulkGet(1, "A", <<"a", "b">>)
    \/ BulkIssue(1)
    \/ BulkStore(1)
    \/ BulkReturn(1)
    \/ BulkDone(1)
    \/ UpdateHeader(1, "A", <<[key |-> "Referer",
                                value |-> <<"https://example.com/">>]>>)
    \/ UpdateCookies(1, "A", <<[name |-> "id", value |-> "1"]>>)
    \/ SetupAuthOauth2(1, "A", "token")
    \/ SetupAuthBasic(1, "A", "user", "hugepass")

SpecOps == Init /\ [][NextOps]_vars

\* One caller making update_cookies calls on session A.
NextCookies == \E cs \in CookieLists : UpdateCookies(1, "A", cs)

SpecCookies == Init /\ [][NextCookies]_vars

\* Sessions built with any retry count and timeout; one caller changes
\* headers and auth, saves a session and loads the file.
InitSave ==
    InitAll(BOOLEAN, 0..MaxRetries, TimeoutValues \cup {SessionTimeout})

NextSave ==
    \/ UpdateHeader(1, "A", <<[key |-> "Referer",
                                value |-> <<"https://example.com/">>]>>)
    \/ SetupAuthOauth2(1, "A", "token")
    \/ SetupAuthBasic(1, "A", "user", "hugepass")
    \/ \E s \in Sessions : SaveSession(1, s)
    \/ \E r \in 0..MaxRetries : LoadSession(1, r)

SpecSave == InitSave /\ [][NextSave]_vars

\* Adapters built with and without a timeout keyword, and sends with and
\* without one.
TimeoutArgs == {Missing, None} \cup TimeoutValues

InitAdapter == InitAll(BOOLEAN, {0}, TimeoutArgs)

NextAdapter ==
    \E t \in Callers, s \in Sessions, k \in TimeoutArgs : AdapterSend(t, s, k)

SpecAdapter == InitAdapter /\ [][NextAdapter]_vars

\* Two threads calling get on the one session A without coordination; the
\* steps of their calls interleave in any order.
NextThreads ==
    \E t \in Callers :
        \/ GetCall(t, "A", "a", 0)
        \/ GetStep(t, {200, 500}, {0}, NoHeaders)
        \/ Return(t)

SpecThreads == Init /\ [][NextThreads]_vars

\* One caller using two sessions in turn; the servers answer 200 or 500,
\* with no rate-limit header, with an exhausted rate limit, or with
\* Retry-After.
SomeHeaders == {<<None, None, None>>, <<0, 1, None>>, <<None, None, 1>>}

NextSessions ==
    \/ \E s \in Sessions, w \in {0, 4} : GetCall(1, s, "a", w)
    \/ GetStep(1, {200, 500}, {0}, SomeHeaders)
    \/ Return(1)

SpecSessions == Init /\ [][NextSessions]_vars

\* One caller making get calls one after another on sessions built with
\* any retry count.  A call that has started keeps running: a sleep
\* returns, the transport answers or fails within its timeout, and the
\* caller takes the outcome.
NextLive ==
    \/ \E w \in {0, 12} : GetCall(1, "A", "a", w)
    \/ GetStep(1, {200, 500}, {0}, SomeHeaders)
    \/ Return(1)

SpecLive ==
    /\ InitRetry
    /\ [][NextLive]_vars
    /\ WF_vars(GetStep(1, {200, 500}, {0}, SomeHeaders))
    /\ WF_vars(Return(1))

\* One caller making update_header calls on session A.
NextHeaders == \E m \in HeaderMappings : UpdateHeader(1, "A", m)

SpecHeaders == Init /\ [][NextHeaders]_vars

\* One caller issuing download calls on a session built with retries=0, to
\* a file or into a directory, with and without the content-type check;
\* every request is answered at once or after a tick, or fails to connect.
InitDownload == InitWith(BOOLEAN, {0})

NextDownload ==
    \/ \E c, dir \in BOOLEAN, w \in {0, MIN_REQUEST_GAP} :
            DownloadCall(1, "A", "a", c, dir, w)
    \/ DownloadConfirm(1, NetDelays, ContentTypes)
    \/ DownloadPath(1, NetDelays, ContentDispositions)
    \/ DownloadIssue(1)
    \/ GapWait(1)
    \/ RateLimitWait(1)
    \/ RetryAfterWait(1)
    \/ Stamp(1)
    \/ AttemptConnectionFailure(1, {0})
    \/ AttemptResponse(1, {200}, NetDelays, NoHeaders)
    \/ HandleRequestException(1)
    \/ DownloadStore(1)
    \/ DownloadDone(1)

SpecDownload == InitDownload /\ [][NextDownload]_vars

\* One caller on session A whose idle waits let a wait come out at exactly
\* zero: MIN_REQUEST_GAP, or one header second, after the last dispatch.
GapIdleWaits == {0, MIN_REQUEST_GAP, TicksPerSecond}

NextWaits ==
    \/ \E w \in GapIdleWaits : GetCall(1, "A", "a", w)
    \/ GetStep(1, {200, 500}, {0}, AllHeaders)
    \/ Return(1)

SpecWaits == Init /\ [][NextWaits]_vars

\* The lists bulk_get is called with: up to MaxUrls urls, repeats allowed.
UrlLists == UNION {[1..n -> URLs] : n \in 0..MaxUrls}

\* One caller issuing bulk_get calls on a session built with retries=0;
\* every server answers 200 at once and without rate-limit headers, or
\* fails to connect.
InitBulk == InitWith(BOOLEAN, {0})

NextBulk ==
    \/ \E urls \in UrlLists : BulkGet(1, "A", urls)
    \/ BulkIssue(1)
    \/ GapWait(1)
    \/ RateLimitWait(1)
    \/ RetryAfterWait(1)
    \/ Stamp(1)
    \/ AttemptConnectionFailure(1, {0})
    \/ AttemptResponse(1, {200}, {0}, NoHeaders)
    \/ HandleRequestException(1)
    \/ BulkStore(1)
    \/ BulkReturn(1)
    \/ BulkDone(1)

SpecBulk == InitBulk /\ [][NextBulk]_vars

\* ------------------------------------------------------------ properties
\* C1: two consecutive get calls of one session call the transport at
\* times that differ by at least MIN_REQUEST_GAP, whatever the earlier call
\* ended with and whatever headers it received.
C1_MinGapBetweenDispatches ==
    \A s \in Sessions :
        hist[s].lastGap # None => hist[s].lastGap >= MIN_REQUEST_GAP

\* A second get that slept out the gap and dispatches exactly one gap
\* after the first.
C1_Witness ==
    /\ pc[1] = "send"
    /\ "gap" \in call[1].waited
    /\ hist["A"].lastGap = MIN_REQUEST_GAP

\* C2: after a response with X-RateLimit-Remaining: 0 and
\* X-RateLimit-Reset: N, the next get does not call the transport before
\* the time the response was observed plus N seconds.
C2_WaitsForRateLimitReset ==
    \A t \in Callers :
        pc[t] = "send" =>
            LET h == hist[call[t].sess]
            IN h.resetDue # None => h.lastDispatch >= h.resetDue

\* A get that slept until the reset time of the previous response.
C2_Witness ==
    /\ pc[1] = "send"
    /\ "reset" \in call[1].waited
    /\ hist["A"].resetDue # None
    /\ hist["A"].lastGap > MIN_REQUEST_GAP

\* C3: after a response with Retry-After: N the next get does not call the
\* transport before the observation time plus N seconds; a get that slept
\* for it leaves retry_after unset, and no Retry-After value is slept for
\* twice.
C3_RetryAfterHonoredOnce ==
    /\ \A t \in Callers :
         LET s == call[t].sess
         IN /\ pc[t] = "send" =>
                  (hist[s].retryDue # None => hist[s].lastDispatch >= hist[s].retryDue)
            /\ (pc[t] \in {"stamp", "send"} /\ "retry" \in call[t].waited) =>
                  retry_after[s] = None
    /\ \A s \in Sessions : hist[s].retryWaits <= 1

\* A get dispatched without a Retry-After sleep after an earlier get of the
\* session slept for the Retry-After value.
C3_Witness ==
    /\ pc[1] = "send"
    /\ hist["A"].retryWaits = 1
    /\ "retry" \notin call[1].waited
    /\ retry_after["A"] = None

\* C6: a get whose every attempt is answered with a status of
\* status_forcelist makes retries + 1 attempts and then ends in RetryError
\* (raised in raise mode, None in non-raise mode), never in the response; a
\* dispatch that ends on a connection failure ends in ConnectionError.
C6_RetriesPlusOneAttempts ==
    \A t \in Callers :
        LET c == call[t]
        IN /\ (pc[t] \in {"exc", "ret"} /\ c.allForce) =>
                /\ c.attempts = retries[c.sess] + 1
                /\ c.err = "RetryError"
           /\ (pc[t] = "ret" /\ c.allForce) =>
                /\ result[t].kind \in {"raised", "None"}
                /\ result[t].kind = "raised" <=> RAISE_ERRORS[c.sess]
                /\ result[t].kind = "raised" => result[t].err = "RetryError"
           /\ (pc[t] \in {"exc", "ret"} /\ c.err # "none" /\ c.answer = None) =>
                c.err = "ConnectionError"

\* A session with retries = 2 raising RetryError after three attempts.
C6_Witness ==
    /\ pc[1] = "ret"
    /\ call[1].allForce
    /\ retries["A"] = 2
    /\ call[1].attempts = 3
    /\ result[1].kind = "raised"
    /\ result[1].err = "RetryError"

\* C7: a get whose first attempt is answered with a status outside
\* status_forcelist makes that one attempt and returns the response with
\* that status, in raise and in non-raise mode.
C7_OtherStatusReturnedOnce ==
    \A t \in Callers :
        (pc[t] = "ret" /\ call[t].first = "other") =>
            /\ call[t].attempts = 1
            /\ result[t].kind = "response"
            /\ result[t].status = call[t].answer
            /\ result[t].status \in OtherStatuses

\* A 400 returned to the caller of a non-raise session.
C7_Witness ==
    /\ pc[1] = "ret"
    /\ call[1].first = "other"
    /\ result[1].status = 400
    /\ ~RAISE_ERRORS["A"]

\* C8: a get whose dispatch ended in an error raises that error when the
\* session's RAISE_ERRORS is true and returns None when it is false, for
\* every url it was called with.
C8_RaiseOrNoneByFlag ==
    \A t \in Callers :
        (pc[t] = "ret" /\ call[t].err # "none") =>
            IF RAISE_ERRORS[call[t].sess]
            THEN result[t].kind = "raised" /\ result[t].err = call[t].err
            ELSE result[t].kind = "None"

\* A connection failure swallowed by a non-raise session.
C8_Witness ==
    /\ pc[1] = "ret"
    /\ call[1].err = "ConnectionError"
    /\ call[1].url = "b"
    /\ ~RAISE_ERRORS["A"]
    /\ result[1].kind = "None"

\* The gets a bulk_get has made so far, in dispatch order: the index of the
\* last one for url u, and how many were made for u.
LastIndex(log, u) ==
    CHOOSE k \in 1..Len(log) :
        log[k].url = u /\ \A j \in (k + 1)..Len(log) : log[j].url # u

Count(seq, u) == Cardinality({k \in 1..Len(seq) : seq[k] = u})

LogUrls(log) == [k \in 1..Len(log) |-> log[k].url]

\* C5: the list bulk_get returns is as long as its input and holds at
\* position k what the get for urls[k] returned, whatever order the gets
\* were made in.
C5_BulkResultsInInputOrder ==
    \A t \in Callers :
        LET b == bulk[t]
        IN b.state = "returned" =>
            /\ Len(b.out) = Len(b.urls)
            /\ \A k \in 1..Len(b.urls) :
                /\ Count(LogUrls(b.log), b.urls[k]) >= 1
                /\ b.out[k] = b.log[LastIndex(b.log, b.urls[k])].r
                /\ b.out[k].url = b.urls[k]

\* Three urls fetched in another order than given, all answered.
C5_Witness ==
    /\ bulk[1].state = "returned"
    /\ bulk[1].urls = <<"a", "b", "c">>
    /\ bulk[1].duplicate_list = <<"c", "a", "b">>
    /\ \A k \in 1..3 : bulk[1].out[k].kind = "response"

\* C9: on a non-raise session bulk_get never raises; when it returns, one
\* get was made per element of the input, and the output holds None where
\* the get for that url failed and the response everywhere else.
C9_BulkCompletesInNonRaiseMode ==
    \A t \in Callers :
        LET b == bulk[t]
        IN (b.state # "idle" /\ ~RAISE_ERRORS[b.sess]) =>
            /\ b.state # "raised"
            /\ b.state = "returned" =>
                /\ Len(b.log) = Len(b.urls)
                /\ \A u \in URLs : Count(LogUrls(b.log), u) = Count(b.urls, u)
                /\ \A k \in 1..Len(b.urls) :
                    LET e == b.log[LastIndex(b.log, b.urls[k])]
                    IN IF e.err # "none"
                       THEN b.out[k].kind = "None"
                       ELSE b.out[k].kind = "response" /\ b.out[k].url = b.urls[k]

\* A batch of three whose first get failed and that went on to the end.
C9_Witness ==
    /\ bulk[1].state = "returned"
    /\ ~RAISE_ERRORS["A"]
    /\ bulk[1].urls = <<"a", "b", "c">>
    /\ bulk[1].log[1].err # "none"
    /\ bulk[1].log[1].url = "b"
    /\ bulk[1].out[2].kind = "None"
    /\ bulk[1].out[1].kind = "response"
    /\ bulk[1].out[3].kind = "response"

\* C10: on a raise session the first get of a batch that fails ends the
\* batch: its error leaves bulk_get, and no get is made for the urls that
\* come after it in dispatch order.
C10_BulkAbortsInRaiseMode ==
    \A t \in Callers :
        LET b == bulk[t]
        IN (b.state # "idle" /\ RAISE_ERRORS[b.sess]) =>
            /\ \A k \in 1..Len(b.log) :
                /\ b.log[k].url = b.duplicate_list[k]
                /\ b.log[k].err # "none" =>
                    /\ k = Len(b.log)
                    /\ b.state = "raised"
                    /\ b.err = b.log[k].err
            /\ b.state = "raised" =>
                /\ pc[t] = "idle"
                /\ Len(b.log) >= 1
                /\ b.log[Len(b.log)].err # "none"

\* A batch of three ended by the failure of its second get.
C10_Witness ==
    /\ bulk[1].state = "raised"
    /\ RAISE_ERRORS["A"]
    /\ Len(bulk[1].urls) = 3
    /\ Len(bulk[1].log) = 2
    /\ bulk[1].err = "ConnectionError"

\* C4: retry_after goes from a set value to None only in the step of a get
\* that slept until that time, and to another set value only in the step
\* in which a get receives a response with a Retry-After header; header,
\* cookie and auth calls, bulk_get's own steps and failing gets leave it.
C4_RetryAfterChangesOnlyByWaitOrHeader ==
    [][\A s \in Sessions :
        retry_after'[s] # retry_after[s] =>
            IF retry_after'[s] = None
            THEN \E t \in Callers :
                    /\ call[t].sess = s
                    /\ pc[t] = "ra" /\ pc'[t] = "stamp"
                    /\ now < retry_after[s]
                    /\ now' >= retry_after[s]
            ELSE \E t \in Callers :
                    /\ call[t].sess = s
                    /\ pc[t] = "send" /\ pc'[t] = "ret"
                    /\ result'[t].kind = "response"
                    /\ hist'[s].retryDue = retry_after'[s]]_vars

\* A Retry-After time that outlived a failed cookie update, both auth
\* set-ups and a header update, and was then slept out and cleared.
C4_Witness ==
    /\ pc[1] = "stamp"
    /\ "retry" \in call[1].waited
    /\ retry_after["A"] = None
    /\ hist["A"].opError = "TypeError"
    /\ auth["A"] # NoAuth
    /\ headers["A"]["Authorization"] # Absent
    /\ headers["A"]["Referer"] # DefaultHeaders["Referer"]

\* What a jar holds for name n after a list of cookies was merged into
\* it: the value of the last entry of that name, else what it held.
JarValue(jar, n) == IF n \in DOMAIN jar THEN jar[n] ELSE Absent

MergedValue(old, cs, n) ==
    LET at == {i \in 1..Len(cs) : cs[i].name = n}
    IN IF at = {} THEN old
       ELSE cs[CHOOSE i \in at : \A j \in at : j <= i].value

\* C11: update_cookies called twice with lists of cookies completes both
\* times, and the jar then holds for every name the later value given for
\* it, and nothing for a name neither call gave.
C11_CookiesLastWriteWins ==
    \A s \in Sessions :
        LET c == hist[s].cookieCalls
        IN /\ \A k \in 1..Len(c) : c[k].raised = "none"
           /\ Len(c) = 2 =>
                \A n \in CookieNames :
                    JarValue(cookies[s], n) =
                        MergedValue(MergedValue(Absent, c[1].arg, n), c[2].arg, n)

\* C12: load_session of a file save_session wrote returns a session, and
\* its headers, cookies, retry count and adapter retry policy and timeout
\* are those the saved session had when it was saved.
C12_SaveLoadRoundTrip ==
    \A t \in Callers :
        loaded[t].state # "none" =>
            /\ loaded[t].state = "returned"
            /\ loaded[t].instance.headers = saved.src.headers
            /\ loaded[t].instance.cookies = saved.src.cookies
            /\ loaded[t].instance.retries = saved.src.retries
            /\ loaded[t].instance.max_retries = saved.src.max_retries
            /\ loaded[t].instance.timeout = saved.src.timeout

\* C13: the request a get dispatches carries the authentication the last
\* setup_auth_basic or setup_auth_oauth2 call on its session configured.
C13_LastAuthInEffect ==
    \A t \in Callers :
        (pc[t] = "send" /\ hist[call[t].sess].lastAuth # Absent) =>
            call[t].authorization = hist[call[t].sess].lastAuth

\* C14: a send without a timeout, or with timeout None, goes out with the
\* adapter's timeout, which is the constructor's timeout keyword or else
\* DEFAULT_TIMEOUT_s; a send with a timeout goes out with that timeout.
C14_SendTimeoutDefaulted ==
    \A t \in Callers :
        sent[t] # NoSent =>
            LET a == adapter[sent[t].sess]
                configured == IF a.kwTimeout = Missing THEN 5 ELSE a.kwTimeout
            IN IF sent[t].given \in {Missing, None}
               THEN sent[t].timeout = configured
               ELSE sent[t].timeout = sent[t].given

\* A send with timeout 0 on an adapter built without a timeout, beside a
\* send without timeout on the same adapter.
C14_Witness ==
    /\ sent[1].sess = "A" /\ sent[2].sess = "A"
    /\ adapter["A"].kwTimeout = Missing
    /\ sent[1] # NoSent /\ sent[1].given = 0 /\ sent[1].timeout = 0
    /\ sent[2] # NoSent /\ sent[2].given = Missing /\ sent[2].timeout = 5

\* C15: when several threads call get on one session, every dispatch of
\* that session still comes at least MIN_REQUEST_GAP after the one before.
C15_ConcurrentCallersPaced ==
    \A t \in Callers :
        pc[t] = "send" =>
            LET gap == hist[call[t].sess].lastGap
            IN gap = None \/ gap >= MIN_REQUEST_GAP

\* The pacing state of session s, and the time of its own last dispatch.
PacingState(s) ==
    <<last_request_time[s], rate_limit_remaining[s], rate_limit_reset[s],
      retry_after[s]>>

OwnLastDispatch(s) ==
    IF hist[s].lastDispatch = None THEN ImportTime ELSE hist[s].lastDispatch

\* C16: the pacing state of a session changes only in steps of a get on
\* that session, and the gap a get sleeps is measured from the last
\* dispatch of its own session, whatever other sessions have done.
C16_SessionsPaceIndependently ==
    [][\A s \in Sessions :
        /\ PacingState(s)' # PacingState(s) =>
              \E t \in Callers :
                  pc[t] # "idle" /\ call[t].sess = s /\ pc'[t] # pc[t]
        /\ \A t \in Callers :
              (pc[t] = "gap" /\ pc'[t] = "rl" /\ call[t].sess = s) =>
                  LET rest == MIN_REQUEST_GAP - (now - OwnLastDispatch(s))
                  IN now' - now = IF rest > 0 THEN rest ELSE 0]_vars

\* Session B starts its first get, without sleeping, after session A has
\* dispatched twice and holds a Retry-After time that is still ahead.
C16_Witness ==
    /\ pc[1] = "rl"
    /\ call[1].sess = "B"
    /\ call[1].waited = {}
    /\ hist["B"].lastDispatch = None
    /\ PacingState("B") = <<None, None, 0, None>>
    /\ hist["A"].lastGap # None
    /\ retry_after["A"] # None /\ retry_after["A"] > now
    /\ last_request_time["A"] # None

\* The order of the positions of a get: idle, pacing (gap, rl, ra, stamp),
\* dispatching (send), failed (exc), and the outcome handed over (ret).
GetPhaseOrder ==
    {<<"idle", "gap">>, <<"gap", "rl">>, <<"rl", "ra">>, <<"ra", "stamp">>,
     <<"stamp", "send">>, <<"send", "ret">>, <<"send", "exc">>,
     <<"exc", "ret">>, <<"ret", "idle">>}

\* C17: a get passes from idle through pacing and dispatching to success
\* or failure in that order, every get that was called ends with a
\* response, None or a raised error, and the caller is then idle again,
\* free to call get once more.
C17_GetTerminates ==
    /\ [][\A t \in Callers :
            pc'[t] # pc[t] => <<pc[t], pc'[t]>> \in GetPhaseOrder]_vars
    /\ (pc[1] = "gap") ~> (pc[1] = "ret" /\ result[1].kind # "none")
    /\ (pc[1] = "ret") ~> (pc[1] = "idle")
    /\ [](pc[1] = "idle" /\ now <= MaxTime => ENABLED GetCall(1, "A", "a", 0))

\* A get that had to sleep out the rate limit an earlier response left,
\* then used up its retries and ended in failure.
C17_Witness ==
    /\ pc[1] = "ret"
    /\ "reset" \in call[1].waited
    /\ call[1].attempts = retries["A"] + 1
    /\ retries["A"] = MaxRetries
    /\ result[1].kind \in {"raised", "None"}

\* headers[key] of a CaseInsensitiveDict.
HeaderLookup(h, key) == h[HeaderName(key)]

\* The items of mapping m no later item of m overrides: those whose key,
\* letter case ignored, occurs in no later item.
LastItems(m) ==
    {i \in 1..Len(m) :
        \A j \in (i + 1)..Len(m) : Lower(m[j].key) # Lower(m[i].key)}

\* C18, as stated: after update_header(mapping) every key of the mapping
\* maps to the mapping's value, and a header key that is not a key of the
\* mapping has the value it had before.
C18_UpdateHeaderMergesByKey ==
    /\ [](\A s \in Sessions :
            \A i \in 1..Len(hist[s].headerArg) :
                HeaderLookup(headers[s], hist[s].headerArg[i].key)
                    = hist[s].headerArg[i].value)
    /\ [][\A s \in Sessions : \A key \in HeaderSpellings :
            HeaderLookup(headers[s], key)' # HeaderLookup(headers[s], key) =>
                \E i \in 1..Len(hist'[s].headerArg) :
                    hist'[s].headerArg[i].key = key]_vars

\* C18, amended: header keys are compared with letter case ignored.  After
\* update_header(mapping) every key of the mapping maps to the value of the
\* last item of the mapping with that key, case ignored, and a header whose
\* key, case ignored, is no key of the mapping has the value it had before.
C18_UpdateHeaderMergesIgnoringCase ==
    /\ [](\A s \in Sessions :
            \A i \in LastItems(hist[s].headerArg) :
                HeaderLookup(headers[s], hist[s].headerArg[i].key)
                    = hist[s].headerArg[i].value)
    /\ [][\A s \in Sessions : \A key \in HeaderSpellings :
            HeaderLookup(headers[s], key)' # HeaderLookup(headers[s], key) =>
                \E i \in 1..Len(hist'[s].headerArg) :
                    Lower(hist'[s].headerArg[i].key) = Lower(key)]_vars

\* A mapping with the keys Referer and referer, in that order, was merged:
\* the header holds the value given for referer; Authorization, set by an
\* earlier call, is kept.
C18_Witness ==
    /\ Len(hist["A"].headerArg) = 2
    /\ hist["A"].headerArg[1].key = "Referer"
    /\ hist["A"].headerArg[2].key = "referer"
    /\ hist["A"].headerArg[1].value # hist["A"].headerArg[2].value
    /\ headers["A"]["Referer"] = hist["A"].headerArg[2].value
    /\ headers["A"]["Authorization"] # Absent

\* The wait a step of caller t has just added to those of its call.
NewWaits(t) == call[t].waited' \ call[t].waited

\* C19: in a get the gap sleep comes first, the rate-limit sleep second and
\* only when the remaining count is known and not positive, the Retry-After
\* sleep third; last_request_time is set to the current time after these
\* steps, in the step that starts the dispatch, whether or not the call
\* slept, and at no other point.
C19_PacingStepsInOrder ==
    [][\A t \in Callers :
        LET s == call[t].sess
        IN /\ (pc[t] = "gap" /\ pc'[t] # "gap") =>
                 pc'[t] = "rl" /\ NewWaits(t) \subseteq {"gap"}
           /\ (pc[t] = "rl" /\ pc'[t] # "rl") =>
                 /\ pc'[t] = "ra"
                 /\ NewWaits(t) \subseteq {"reset"}
                 /\ NewWaits(t) # {} =>
                       /\ rate_limit_remaining[s] # None
                       /\ rate_limit_remaining[s] <= 0
           /\ (pc[t] = "ra" /\ pc'[t] # "ra") =>
                 pc'[t] = "stamp" /\ NewWaits(t) \subseteq {"retry"}
           /\ (pc[t] \in {"gap", "rl", "ra"} /\ call'[t].sess = s) =>
                 last_request_time'[s] = last_request_time[s]
           /\ (pc[t] = "stamp" /\ pc'[t] # "stamp") =>
                 /\ pc'[t] = "send"
                 /\ now' = now
                 /\ last_request_time'[s] = now
           /\ (pc'[t] = "send" /\ pc[t] # "send") => pc[t] = "stamp"
           /\ (pc'[t] \in {"rl", "ra", "stamp"} /\ pc[t] = pc'[t]) =>
                 NewWaits(t) = {}]_vars

\* A get that slept for the gap and then for the rate-limit reset, skipped
\* the Retry-After sleep because that time had passed, and dispatches with
\* last_request_time set to the current time.
C19_Witness ==
    /\ pc[1] = "send"
    /\ call[1].waited = {"gap", "reset"}
    /\ retry_after["A"] # None
    /\ last_request_time["A"] = now
    /\ call[1].attempts = 0

\* C20: when a get observes a response, rate_limit_remaining and
\* rate_limit_reset change only if the response has both X-RateLimit-Remaining
\* and X-RateLimit-Reset, retry_after changes only if it has Retry-After,
\* and after a response with none of the three no rate-limit or Retry-After
\* time lies ahead for the next get to sleep out.
C20_AbsentHeadersChangeNothing ==
    /\ [][\A t \in Callers :
            (pc[t] = "send" /\ pc'[t] = "ret") =>
                LET s == call[t].sess
                    h == call'[t].received
                IN /\ (h[1] = None \/ h[2] = None) =>
                         /\ rate_limit_remaining'[s] = rate_limit_remaining[s]
                         /\ rate_limit_reset'[s] = rate_limit_reset[s]
                   /\ (h[1] # None /\ h[2] # None) =>
                         /\ rate_limit_remaining'[s] = h[1]
                         /\ rate_limit_reset'[s] = now' + h[2] * TicksPerSecond
                   /\ h[3] = None => retry_after'[s] = retry_after[s]
                   /\ h[3] # None =>
                         retry_after'[s] = now' + h[3] * TicksPerSecond]_vars
    /\ [](\A t \in Callers :
            (pc[t] = "ret" /\ result[t].kind = "response"
                /\ call[t].received = <<None, None, None>>) =>
                LET s == call[t].sess
                IN /\ ~(/\ rate_limit_remaining[s] # None
                         /\ rate_limit_remaining[s] <= 0
                         /\ rate_limit_reset[s] > now)
                   /\ ~(retry_after[s] # None /\ retry_after[s] > now))

\* A response with X-RateLimit-Remaining: 0 and no X-RateLimit-Reset was
\* observed; the count of 1 and the reset time an earlier response gave
\* are still there.
C20_Witness ==
    /\ pc[1] = "ret"
    /\ result[1].kind = "response"
    /\ call[1].received[1] = 0
    /\ call[1].received[2] = None
    /\ rate_limit_remaining["A"] = 1
    /\ rate_limit_reset["A"] > now

\* The wait each pacing step of get computes: the rest of the minimum gap,
\* the time to the rate-limit reset when the quota is used up, the time to
\* the Retry-After instant (None: the step has nothing to compute).
ComputedWait(t, step) ==
    LET s == call[t].sess
    IN CASE step = "gap" -> MIN_REQUEST_GAP - (now - LastRequestTime(s))
         [] step = "reset" -> IF RateLimitHit(rate_limit_remaining[s])
                              THEN rate_limit_reset[s] - now ELSE None
         [] step = "retry" -> IF retry_after[s] # None
                              THEN retry_after[s] - now ELSE None

\* C21: in every get call each of the three waits (minimum gap, rate-limit
\* reset, Retry-After) sleeps only for a strictly positive duration: a step
\* whose computed wait is positive sleeps that long, and a step whose
\* computed wait is zero or negative (or that has no wait to compute)
\* sleeps not at all -- the clock stands still, no sleep is recorded -- and
\* the call moves on towards the dispatch.
C21_SleepsOnlyPositive ==
    [][\A t \in Callers :
         \A ph \in {<<"gap", "rl", "gap">>, <<"rl", "ra", "reset">>,
                    <<"ra", "stamp", "retry">>} :
           pc[t] = ph[1] =>
             LET d == ComputedWait(t, ph[3])
             IN /\ pc'[t] = ph[2]
                /\ IF d > 0
                   THEN NewWaits(t) = {ph[3]} /\ now' >= now + d
                   ELSE NewWaits(t) = {} /\ now' = now]_vars

\* Reached: a get about to dispatch that has not slept: the gap had
\* elapsed (a negative wait) and the reset and the Retry-After instants
\* were just reached (waits of zero).
C21_Witness ==
    /\ pc[1] = "stamp"
    /\ call[1].waited = {}
    /\ now - LastRequestTime("A") > MIN_REQUEST_GAP
    /\ RateLimitHit(rate_limit_remaining["A"])
    /\ rate_limit_reset["A"] = now
    /\ retry_after["A"] = now

\* C22: bulk_get dispatches sequentially.  The dispatch order is a
\* permutation of the input list; the gets of a batch follow it one by one,
\* one get per element: the get in progress is the one for the element after
\* those whose get has returned or raised, and a batch that returns has made
\* one get per element (a batch that a raising get ends has made the gets
\* of a prefix of the permutation).  Every dispatch of a batch after its
\* first comes at least MIN_REQUEST_GAP after the dispatch before it.
C22_BulkDispatchesSequentially ==
    /\ [](\A t \in Callers :
            LET b == bulk[t]
            IN b.state # "idle" =>
                /\ \A u \in URLs : Count(b.duplicate_list, u) = Count(b.urls, u)
                /\ Len(b.log) <= Len(b.urls)
                /\ \A k \in 1..Len(b.log) : b.log[k].url = b.duplicate_list[k]
                /\ pc[t] # "idle" =>
                    /\ Len(b.log) < Len(b.urls)
                    /\ call[t].url = b.duplicate_list[Len(b.log) + 1]
                /\ b.state = "returned" => Len(b.log) = Len(b.urls))
    /\ [][\A t \in Callers :
            (/\ bulk[t].state = "loop"
             /\ Len(bulk[t].log) >= 1
             /\ pc[t] = "stamp" /\ pc'[t] = "send") =>
                /\ hist'[bulk[t].sess].lastDispatch = now
                /\ now - hist[bulk[t].sess].lastDispatch >= MIN_REQUEST_GAP]_vars

\* The third get of the batch <<a, b, a>>, shuffled to <<a, a, b>>, has
\* just been dispatched, the first of the three having failed; it follows
\* the second by exactly MIN_REQUEST_GAP.
C22_Witness ==
    /\ bulk[1].state = "loop"
    /\ bulk[1].urls = <<"a", "b", "a">>
    /\ bulk[1].duplicate_list = <<"a", "a", "b">>
    /\ Len(bulk[1].log) = 2
    /\ bulk[1].log[1].err # "none"
    /\ pc[1] = "send"
    /\ call[1].url = "b"
    /\ hist["A"].lastGap = MIN_REQUEST_GAP

\* C23: the pacing gap holds between the starts of any two consecutive
\* outbound requests of one session, the HEAD requests of downloadble and
\* _filename_from_url included: the requests that one
\* download(url, directory, confirm_downloadble=True) sends are at least
\* MIN_REQUEST_GAP apart.
C23_DownloadRequestsPaced ==
    \A t \in Callers :
        LET d == download[t]
        IN (d.confirm_downloadble /\ d.is_dir) =>
            \A k \in 1..(Len(d.requests) - 1) :
                d.requests[k + 1].at - d.requests[k].at >= MIN_REQUEST_GAP

\* A get that has failed: it raised, or returned None.
Failed(t) == pc[t] = "ret" /\ result[t].kind \in {"raised", "None"}

\* C24 as stated: a get whose dispatch fails with a transport error, on a
\* raise or a non-raise session, leaves rate_limit_remaining,
\* rate_limit_reset and retry_after exactly as they were before the call,
\* and last_request_time is the time of the failed dispatch.
C24_FailedGetLeavesRateState ==
    \A t \in Callers :
        Failed(t) =>
            LET s == call[t].sess
            IN /\ <<rate_limit_remaining[s], rate_limit_reset[s],
                     retry_after[s]>> = call[t].entry
               /\ hist[s].lastDispatch # None
               /\ last_request_time[s] = hist[s].lastDispatch

\* C24, amended: a get whose dispatch fails with a transport error, on a
\* raise or a non-raise session, leaves rate_limit_remaining and
\* rate_limit_reset exactly as they were before the call, and retry_after
\* too unless the call slept until the Retry-After time before it
\* dispatched, in which case retry_after is None; last_request_time is the
\* time of the failed dispatch, it stays so until the session's next get
\* dispatches, and no get dispatches less than MIN_REQUEST_GAP after the
\* time last_request_time holds: the next get is paced MIN_REQUEST_GAP
\* after the failed attempt.
C24_FailedGetKeepsRateStateButRetryWait ==
    /\ [](\A t \in Callers :
            Failed(t) =>
                LET s == call[t].sess
                IN /\ rate_limit_remaining[s] = call[t].entry[1]
                   /\ rate_limit_reset[s] = call[t].entry[2]
                   /\ retry_after[s] = IF "retry" \in call[t].waited THEN None
                                       ELSE call[t].entry[3]
                   /\ hist[s].lastDispatch # None
                   /\ hist[s].lastDispatch <= now
                   /\ last_request_time[s] = hist[s].lastDispatch)
    /\ [][\A s \in Sessions :
            IF \E t \in Callers :
                    call[t].sess = s /\ pc[t] = "stamp" /\ pc'[t] = "send"
            THEN /\ now - LastRequestTime(s) >= MIN_REQUEST_GAP
                 /\ last_request_time'[s] = now
            ELSE last_request_time'[s] = last_request_time[s]]_vars

\* A get on a non-raise session that slept until the Retry-After time, was
\* dispatched with the quota used up and failed: it returned None.
C24_Witness ==
    /\ Failed(1)
    /\ result[1].kind = "None"
    /\ "retry" \in call[1].waited
    /\ call[1].entry[1] = 0
    /\ call[1].entry[3] # None
    /\ retry_after["A"] = None
    /\ last_request_time["A"] = hist["A"].lastDispatch

\* The positions of url u in a list.
Positions(seq, u) == {k \in 1..Len(seq) : seq[k] = u}

\* C25: when bulk_get returns, also for an input that holds a url at
\* several positions: one get was dispatched per occurrence, the caller's
\* list is as it was passed, the output is as long as the input, and all
\* positions of a url hold one and the same result, that of the get for
\* that url dispatched last; on a non-raise session they hold None exactly
\* when that last get failed.
C25_DuplicateUrlsShareLastResult ==
    \A t \in Callers :
        LET b == bulk[t]
        IN /\ b.urls = b.input
           /\ b.state = "returned" =>
                /\ Len(b.out) = Len(b.input)
                /\ \A u \in URLs :
                    /\ Count(LogUrls(b.log), u) = Count(b.input, u)
                    /\ \A k \in Positions(b.input, u) :
                        LET last == b.log[LastIndex(b.log, u)]
                        IN /\ b.out[k] = last.r
                           /\ ~RAISE_ERRORS[b.sess] =>
                                (b.out[k].kind = "None" <=> last.err # "none")

\* A non-raise batch <<a, b, a>> has returned: the get for a dispatched
\* first was answered, the one dispatched last failed, and both positions
\* of a hold None.
C25_Witness ==
    /\ bulk[1].state = "returned"
    /\ ~RAISE_ERRORS["A"]
    /\ bulk[1].input = <<"a", "b", "a">>
    /\ bulk[1].log[1].url = "a"
    /\ bulk[1].log[1].err = "none"
    /\ bulk[1].log[3].url = "a"
    /\ bulk[1].log[3].err # "none"
    /\ bulk[1].out[1].kind = "None"
    /\ bulk[1].out[3].kind = "None"
    /\ bulk[1].out[2].kind = "response"

====
